---------------------------- MODULE Spec2Model ----------------------------
(***************************************************************************)
(* A model of the DigitalOcean client for Deno: the RequestTool transport  *)
(* (src/lib/request-tool.ts), the DigitalOcean client constructor and the  *)
(* per-resource service methods that call the transport.                   *)
(*                                                                         *)
(* JavaScript values are tagged records; a text (a request or response     *)
(* body) is a sequence of JSON tokens; a template string is the sequence   *)
(* of its parts.                                                           *)
(***************************************************************************)
EXTENDS Integers, Sequences, FiniteSets, TLC

(***************************************************************************)
(* Bounds of the model.                                                    *)
(***************************************************************************)
\* slots for calls; under Spec the caller awaits each call before the next one and
\* only the first slot is in use
MaxCalls == 2
\* DigitalOcean instances constructed in one run
MaxClients == 1
\* polls of an action answered by the service in one run
MaxPolls == 3
\* DigitalOcean instances that coexist in one run of SpecInstances
MaxInstances == 2

(***************************************************************************)
(* JavaScript values.                                                      *)
(***************************************************************************)
Null == [t |-> "null"]

Undefined == [t |-> "undefined"]

Bool(b) == [t |-> "bool", b |-> b]

Num(n) == [t |-> "num", n |-> n]

Str(s) == [t |-> "str", s |-> s]

\* an object is the sequence of its <<key, value>> members, in insertion order
Obj(m) == [t |-> "obj", m |-> m]

Arr(e) == [t |-> "arr", e |-> e]

\* an object JSON.stringify cannot serialize (it holds a cycle)
Cyclic == [t |-> "cyclic"]

\* !v of JavaScript
Falsy(v) ==
  \/ v.t \in {"null", "undefined"}
  \/ v.t = "bool" /\ ~v.b
  \/ v.t = "num" /\ v.n = 0
  \/ v.t = "str" /\ v.s = ""

RECURSIVE LookUp(_, _)
\* the value of the last member of m named key, undefined when there is none
LookUp(m, key) ==
  IF m = <<>> THEN Undefined
  ELSE LET l == m[Len(m)] IN
       IF l[1] = key THEN l[2] ELSE LookUp(SubSeq(m, 1, Len(m) - 1), key)

\* the outcome of the property access v.key: a TypeError on null and undefined
Prop(v, key) ==
  IF v.t \in {"null", "undefined"} THEN [throws |-> TRUE, v |-> Undefined]
  ELSE IF v.t = "obj" THEN [throws |-> FALSE, v |-> LookUp(v.m, key)]
  ELSE [throws |-> FALSE, v |-> Undefined]

\* v.key where v is known to be an object
Get(v, key) == Prop(v, key).v

\* key in v, for an object v
Has(v, key) == \E i \in 1..Len(v.m) : v.m[i][1] = key

(***************************************************************************)
(* JSON texts: sequences of tokens.                                        *)
(***************************************************************************)
P(c) == [k |-> "p", p |-> c]

TLit(l) == [k |-> "lit", l |-> l]

TNum(n) == [k |-> "num", n |-> n]

TStr(s) == [k |-> "str", s |-> s]

\* characters that belong to no JSON token
Junk == [k |-> "junk"]

IsP(tok, c) == tok.k = "p" /\ tok.p = c

ParseFail == [ok |-> FALSE, v |-> Null, rest |-> <<>>]

ParseOk(v, rest) == [ok |-> TRUE, v |-> v, rest |-> rest]

\* dropping an earlier member of the same name: a repeated key keeps the last value
RECURSIVE SetMember(_, _, _)
SetMember(m, key, v) ==
  IF m = <<>> THEN << <<key, v>> >>
  ELSE IF Head(m)[1] = key THEN << <<key, v>> >> \o Tail(m)
  ELSE <<Head(m)>> \o SetMember(Tail(m), key, v)

RECURSIVE ParseValue(_), ParseMembers(_, _), ParseElements(_, _)
\* one JSON value at the head of the tokens ts
ParseValue(ts) ==
  IF ts = <<>> THEN ParseFail
  ELSE LET h == Head(ts)
           r == Tail(ts)
       IN CASE h.k = "lit" ->
                 ParseOk(IF h.l = "null" THEN Null ELSE Bool(h.l = "true"), r)
            [] h.k = "num" -> ParseOk(Num(h.n), r)
            [] h.k = "str" -> ParseOk(Str(h.s), r)
            [] IsP(h, "{") ->
                 IF r # <<>> /\ IsP(Head(r), "}") THEN ParseOk(Obj(<<>>), Tail(r))
                 ELSE ParseMembers(r, <<>>)
            [] IsP(h, "[") ->
                 IF r # <<>> /\ IsP(Head(r), "]") THEN ParseOk(Arr(<<>>), Tail(r))
                 ELSE ParseElements(r, <<>>)
            [] OTHER -> ParseFail

\* the members of an object after its opening brace, acc the members read so far
ParseMembers(ts, acc) ==
  IF Len(ts) < 3 \/ Head(ts).k # "str" \/ ~IsP(ts[2], ":") THEN ParseFail
  ELSE LET val == ParseValue(SubSeq(ts, 3, Len(ts))) IN
       IF ~val.ok \/ val.rest = <<>> THEN ParseFail
       ELSE LET sep == Head(val.rest)
                acc2 == SetMember(acc, Head(ts).s, val.v)
            IN IF IsP(sep, "}") THEN ParseOk(Obj(acc2), Tail(val.rest))
               ELSE IF IsP(sep, ",") THEN ParseMembers(Tail(val.rest), acc2)
               ELSE ParseFail

\* the elements of an array after its opening bracket, acc the elements read so far
ParseElements(ts, acc) ==
  LET val == ParseValue(ts) IN
  IF ~val.ok \/ val.rest = <<>> THEN ParseFail
  ELSE LET sep == Head(val.rest)
           acc2 == Append(acc, val.v)
       IN IF IsP(sep, "]") THEN ParseOk(Arr(acc2), Tail(val.rest))
          ELSE IF IsP(sep, ",") THEN ParseElements(Tail(val.rest), acc2)
          ELSE ParseFail

\* ToString of a primitive, as the tokens of the resulting string
ToStringToks(v) ==
  CASE v.t = "null" -> <<TLit("null")>>
    [] v.t = "bool" -> <<TLit(IF v.b THEN "true" ELSE "false")>>
    [] v.t = "num" -> <<TNum(v.n)>>
    [] OTHER -> <<Junk>>

\* JSON.parse of the tokens ts: the value, or a SyntaxError
JSONparseToks(ts) ==
  LET r == ParseValue(ts) IN
  IF r.ok /\ r.rest = <<>> THEN [throws |-> FALSE, v |-> r.v]
  ELSE [throws |-> TRUE, v |-> Undefined]

RECURSIVE Stringify(_), StringifyMembers(_, _), StringifyElements(_, _)
\* JSON.stringify of a serializable value, as tokens
Stringify(v) ==
  CASE v.t = "null" -> <<TLit("null")>>
    [] v.t = "bool" -> <<TLit(IF v.b THEN "true" ELSE "false")>>
    [] v.t = "num" -> <<TNum(v.n)>>
    [] v.t = "str" -> <<TStr(v.s)>>
    [] v.t = "obj" -> <<P("{")>> \o StringifyMembers(v.m, TRUE) \o <<P("}")>>
    [] v.t = "arr" -> <<P("[")>> \o StringifyElements(v.e, TRUE) \o <<P("]")>>
    [] OTHER -> <<>>

\* the members of an object; a member whose value is undefined is left out
StringifyMembers(m, first) ==
  IF m = <<>> THEN <<>>
  ELSE IF Head(m)[2].t = "undefined" THEN StringifyMembers(Tail(m), first)
  ELSE (IF first THEN <<>> ELSE <<P(",")>>)
       \o <<TStr(Head(m)[1]), P(":")>> \o Stringify(Head(m)[2])
       \o StringifyMembers(Tail(m), FALSE)

\* the elements of an array; an undefined element is written as null
StringifyElements(e, first) ==
  IF e = <<>> THEN <<>>
  ELSE (IF first THEN <<>> ELSE <<P(",")>>)
       \o (IF Head(e).t = "undefined" THEN <<TLit("null")>> ELSE Stringify(Head(e)))
       \o StringifyElements(Tail(e), FALSE)

RECURSIVE HasCycle(_)
\* whether JSON.stringify throws on v
HasCycle(v) ==
  CASE v.t = "cyclic" -> TRUE
    [] v.t = "obj" -> \E i \in 1..Len(v.m) : HasCycle(v.m[i][2])
    [] v.t = "arr" -> \E i \in 1..Len(v.e) : HasCycle(v.e[i])
    [] OTHER -> FALSE

\* a string held as its tokens: a request or response body
Text(toks) == [t |-> "text", toks |-> toks]

\* if (text): null and the empty string are falsy
TextTruthy(text) == text.t = "text" /\ text.toks # <<>>

(***************************************************************************)
(* The transport: class RequestTool.                                       *)
(***************************************************************************)
\* method.toLowerCase() of the methods the entry points pass
toLowerCase(method) ==
  CASE method = "HEAD" -> "head"
    [] method = "GET" -> "get"
    [] method = "PUT" -> "put"
    [] method = "POST" -> "post"
    [] method = "PATCH" -> "patch"
    [] method = "DELETE" -> "delete"
    [] OTHER -> method

\* the headers with 'delete' added to the cases of the switch
getHeaders_WithDelete(method, thisToken) ==
  LET headers == ("Authorization" :> <<"Bearer ", thisToken>>)
                 @@ ("Accept" :> <<"application/json, text/plain, */*">>)
  IN IF toLowerCase(method) \in {"put", "post", "patch", "delete"}
     THEN headers @@ ("Content-Type" :> <<"application/json">>)
     ELSE headers

\* the headers with the token read once, when the transport was created
getHeaders_TokenAtCreation(method, thisToken) ==
  LET headers == ("Authorization" :> <<"Bearer ", "">>)
                 @@ ("Accept" :> <<"application/json, text/plain, */*">>)
  IN IF toLowerCase(method) \in {"put", "post", "patch"}
     THEN headers @@ ("Content-Type" :> <<"application/json">>)
     ELSE headers

\* #getHeaders(method), reading this.token
getHeaders(method, thisToken) ==
  LET headers == ("Authorization" :> <<"Bearer ", thisToken>>)
                 @@ ("Accept" :> <<"application/json, text/plain, */*">>)
  IN IF toLowerCase(method) \in {"put", "post", "patch"}
     THEN headers @@ ("Content-Type" :> <<"application/json">>)
     ELSE headers

NoBody == [present |-> FALSE, toks |-> <<>>]

\* the arguments of fetch with the body serialised whether or not one was passed
FetchArgs_AlwaysBody(method, path, body, thisBaseUrl, thisToken) ==
  [url |-> <<thisBaseUrl>> \o path,
   method |-> method,
   headers |-> getHeaders(method, thisToken),
   body |-> [present |-> TRUE, toks |-> Stringify(body)]]

\* the arguments of fetch that #query builds from method, path and body
FetchArgs(method, path, body, thisBaseUrl, thisToken) ==
  [url |-> <<thisBaseUrl>> \o path,
   method |-> method,
   headers |-> getHeaders(method, thisToken),
   body |-> IF body # Undefined
            THEN [present |-> TRUE, toks |-> Stringify(body)]
            ELSE NoBody]

\* JSON.parse(arg): ToString of the argument, then the parse
JSONparse(arg) ==
  IF arg.t = "text" THEN JSONparseToks(arg.toks) ELSE JSONparseToks(ToStringToks(arg))

\* the decode step with data declared and not initialised: undefined, not null
Decode_Uninitialised(text) ==
  LET data == Undefined IN
  IF TextTruthy(text)
  THEN LET parsed == JSONparse(data) IN IF parsed.throws THEN data ELSE parsed.v
  ELSE data

\* the decode step of #query: data after the try block, given the text read
Decode(text) ==
  LET data == Null IN
  IF TextTruthy(text)
  THEN LET parsed == JSONparse(data) IN IF parsed.throws THEN data ELSE parsed.v
  ELSE data

\* await response.text().catch(_ => null)
ReadText(response) ==
  IF response.readable THEN Text(response.toks) ELSE Null

\* the status checks with 400 counted as a client error
Classify_From400(status) ==
  IF status > 500 THEN "Server Error Result"
  ELSE IF status >= 400 THEN "Client Error Result"
  ELSE ""

\* the status checks with 500 counted as a server error
Classify_From500(status) ==
  IF status >= 500 THEN "Server Error Result"
  ELSE IF status > 400 THEN "Client Error Result"
  ELSE ""

\* the status checks in the other order: the client check shadows the server check
Classify_ClientFirst(status) ==
  IF status > 400 THEN "Client Error Result"
  ELSE IF status > 500 THEN "Server Error Result"
  ELSE ""

\* the status checks of #query: the message of the error thrown, "" when none is
Classify(status) ==
  IF status > 500 THEN "Server Error Result"
  ELSE IF status > 400 THEN "Client Error Result"
  ELSE ""

\* what #query settles with once the response and its text are there
QueryResult(response) ==
  LET text == ReadText(response)
      data == Decode(text)
      message == Classify(response.status)
  IN [kind |-> IF message = "" THEN "resolved" ELSE "rejected",
      error |-> [name |-> IF message = "" THEN "" ELSE "Error", message |-> message],
      response |-> response,
      text |-> text,
      data |-> data]

\* the entry points head, get, put, post, patch and delete: the arguments of #query
EntryPoint(verb, path, value) ==
  CASE verb = "head" -> [method |-> "HEAD", path |-> path, body |-> Undefined]
    [] verb = "get" -> [method |-> "GET", path |-> path, body |-> Undefined]
    [] verb = "put" -> [method |-> "PUT", path |-> path, body |-> value]
    [] verb = "post" -> [method |-> "POST", path |-> path, body |-> value]
    [] verb = "patch" -> [method |-> "PATCH", path |-> path, body |-> value]
    [] verb = "delete" -> [method |-> "DELETE", path |-> path, body |-> value]

Verbs == {"head", "get", "put", "post", "patch", "delete"}

(***************************************************************************)
(* The services.  A service method either throws before it reaches the     *)
(* transport or makes one call of an entry point and chains a continuation *)
(* on the promise it returns.                                              *)
(***************************************************************************)
Throws(name, message) ==
  [throws |-> TRUE, error |-> [name |-> name, message |-> message]]

\* request.<verb>(path, value).then(response => response.data.<field>)
ThenField(verb, path, value, field) ==
  [throws |-> FALSE, verb |-> verb, path |-> path, value |-> value,
   then |-> [kind |-> "field", field |-> field]]

\* request.<verb>(path, value).then(() => undefined)
ThenUndefined(verb, path, value) ==
  [throws |-> FALSE, verb |-> verb, path |-> path, value |-> value,
   then |-> [kind |-> "undefined", field |-> ""]]

\* request.<verb>(path, value), used directly
Direct(verb, path, value) ==
  [throws |-> FALSE, verb |-> verb, path |-> path, value |-> value,
   then |-> [kind |-> "result", field |-> ""]]

MissingActionFields == "Required fields missing from Action Object"

\* the validation without its check of droplet_id
attachActionIsValid_TypeOnly(action) ==
  IF Falsy(Get(action, "type")) THEN FALSE
  ELSE TRUE

attachActionIsValid(action) ==
  IF Falsy(Get(action, "type")) \/ Falsy(Get(action, "droplet_id")) THEN FALSE
  ELSE TRUE

attachActionByNameIsValid(action) ==
  IF ~attachActionIsValid(action) \/ Falsy(Get(action, "volume_name")) THEN FALSE
  ELSE TRUE

\* the validation of a resize copied from attach: droplet_id for size_gigabytes
resizeActionIsValid_DropletId(action) ==
  IF Falsy(Get(action, "type")) \/ Falsy(Get(action, "droplet_id")) THEN FALSE
  ELSE TRUE

resizeActionIsValid(action) ==
  IF Falsy(Get(action, "type")) \/ Falsy(Get(action, "size_gigabytes")) THEN FALSE
  ELSE TRUE

attachVolumeToDroplet(volumeId, actionRequest) ==
  IF ~attachActionIsValid(actionRequest) THEN Throws("Error", MissingActionFields)
  ELSE ThenField("post", <<"/volumes/", volumeId, "/actions">>, actionRequest, "action")

attachVolumeToDropletByName(actionRequest) ==
  IF ~attachActionByNameIsValid(actionRequest) THEN Throws("Error", MissingActionFields)
  ELSE ThenField("post", <<"/volumes/actions">>, actionRequest, "action")

detachVolumeFromDroplet(volumeId, actionRequest) ==
  IF ~attachActionIsValid(actionRequest) THEN Throws("Error", MissingActionFields)
  ELSE ThenField("post", <<"/volumes/", volumeId, "/actions">>, actionRequest, "action")

detachVolumeFromDropletByName(actionRequest) ==
  IF ~attachActionByNameIsValid(actionRequest) THEN Throws("Error", MissingActionFields)
  ELSE ThenField("post", <<"/volumes/actions">>, actionRequest, "action")

resizeVolume(volumeId, actionRequest) ==
  IF ~resizeActionIsValid(actionRequest) THEN Throws("Error", MissingActionFields)
  ELSE ThenField("post", <<"/volumes/", volumeId, "/actions">>, actionRequest, "action")

getExistingVolumeAction(volumeId, actionId) ==
  ThenField("get", <<"/volumes/", volumeId, "/actions/", actionId>>, Undefined, "action")

getExistingImageAction(imageId, actionId) ==
  ThenField("get", <<"/images/", imageId, "/actions/", actionId>>, Undefined, "action")

getExistingFloatingIPAction(floatingIPAddress, actionId) ==
  ThenField("get", <<"/floating_ips/", floatingIPAddress, "/actions/", actionId>>,
            Undefined, "action")

getExistingAction(id) ==
  ThenField("get", <<"/actions/", id>>, Undefined, "action")

assignFloatingIPToDroplet(floatingIPAddress, dropletId) ==
  LET data == Obj(<< <<"droplet_id", Str(dropletId)>>, <<"type", Str("assign")>> >>)
  IN ThenField("post", <<"/floating_ips/", floatingIPAddress, "/actions">>, data, "action")

\* the argument of post names redataquest, which nothing declares
unassignFloatingIP(floatingIPAddress) ==
  Throws("ReferenceError", "redataquest is not defined")

Digit == <<"0", "1", "2", "3", "4", "5", "6", "7", "8", "9">>

RECURSIVE NumberToString(_)
\* String(n) of a non-negative integer: its decimal digits
NumberToString(n) ==
  IF n < 10 THEN Digit[n + 1]
  ELSE NumberToString(n \div 10) \o Digit[(n % 10) + 1]

\* ${v} in a template literal
TemplateString(v) ==
  CASE v.t = "undefined" -> "undefined"
    [] v.t = "null" -> "null"
    [] v.t = "bool" -> IF v.b THEN "true" ELSE "false"
    [] v.t = "num" -> NumberToString(v.n)
    [] v.t = "str" -> v.s
    [] OTHER -> "[object Object]"

\* v || d
OrElse(v, d) == IF Falsy(v) THEN d ELSE v

\* v ?? d
Coalesce(v, d) == IF v.t \in {"null", "undefined"} THEN d ELSE v

getAllActions(perPage, page) ==
  LET page1 == OrElse(page, Num(1))
      perPage1 == OrElse(perPage, Num(25))
      url == <<"/actions?page=", TemplateString(page1),
               "&per_page=", TemplateString(perPage1)>>
  IN ThenField("get", url, Undefined, "actions")

getAllVolumeActions(volumeId, perPage, page) ==
  LET page1 == Coalesce(page, Num(1))
      perPage1 == OrElse(perPage, Num(25))
      url == <<"/volumes/", volumeId, "/actions?page=", TemplateString(page1),
               "&per_page=", TemplateString(perPage1)>>
  IN ThenField("get", url, Undefined, "actions")

\* page ? page : 1 and perPage ? perPage : 25 are page || 1 and perPage || 25
getAllDistributionImages(perPage, page) ==
  LET page1 == IF ~Falsy(page) THEN page ELSE Num(1)
      perPage1 == IF ~Falsy(perPage) THEN perPage ELSE Num(25)
      url == <<"/images?type=distribution&page=", TemplateString(page1),
               "&per_page=", TemplateString(perPage1)>>
  IN ThenField("get", url, Undefined, "images")

getDropletActions(dropletId) ==
  ThenField("get", <<"/droplets/", dropletId, "/actions">>, Undefined, "actions")

getImageActions(imageId) ==
  ThenField("get", <<"/images/", imageId, "/actions">>, Undefined, "actions")

getAllFloatingIPActions(floatingIPAddress) ==
  ThenField("get", <<"/floating_ips/", floatingIPAddress, "/actions">>, Undefined, "actions")

getExistingDroplet(dropletId) ==
  ThenField("get", <<"/droplets/", dropletId>>, Undefined, "droplet")

deleteDroplet(dropletId) ==
  ThenUndefined("delete", <<"/droplets/", dropletId>>, Undefined)

\* getSnapshots without its test for 'all'
getSnapshots_AllIsAType(resourceType) ==
  LET url == <<"/snapshots">>
      url1 == IF ~Falsy(resourceType)
              THEN url \o <<"?resource_type=", TemplateString(resourceType)>>
              ELSE url
  IN ThenField("get", url1, Undefined, "snapshots")

getSnapshots(resourceType) ==
  LET url == <<"/snapshots">>
      url1 == IF ~Falsy(resourceType) /\ resourceType # Str("all")
              THEN url \o <<"?resource_type=", TemplateString(resourceType)>>
              ELSE url
  IN ThenField("get", url1, Undefined, "snapshots")

MissingVolumeFields == "Required fields missing from Block Storage Object"

MissingEndpointFields == "Required fields missing from Endpoint Object"

\* the validation of a volume without its check of name
volumeIsValid_SizeOnly(vol) ==
  IF Falsy(Get(vol, "size_gigabytes")) THEN FALSE
  ELSE TRUE

volumeIsValid(vol) ==
  IF Falsy(Get(vol, "size_gigabytes")) \/ Falsy(Get(vol, "name")) THEN FALSE
  ELSE TRUE

createBlockStorage(volume) ==
  IF ~volumeIsValid(volume) THEN Throws("Error", MissingVolumeFields)
  ELSE ThenField("post", <<"/volumes">>, volume, "volume")

endpointIsValid(end) ==
  IF Falsy(Get(end, "origin")) THEN FALSE
  ELSE TRUE

createEndpoint(endpoint) ==
  IF ~endpointIsValid(endpoint) THEN Throws("Error", MissingEndpointFields)
  ELSE ThenField("post", <<"/cdn/endpoints">>, endpoint, "endpoint")

\* FirewallService: the droplet ids go in the body of a DELETE, wrapped in {data}
removeDropletsFromFirewall(firewallId, dropletIds) ==
  LET data == Obj(<< <<"droplet_ids", dropletIds>> >>)
  IN ThenUndefined("delete", <<"/firewalls/", firewallId, "/droplets">>,
                   Obj(<< <<"data", data>> >>))

getAllDroplets ==
  ThenField("get", <<"/droplets">>, Undefined, "droplets")

getDropletsByTag(tag) ==
  ThenField("get", <<"/droplets?tag_name=", tag>>, Undefined, "droplets")

getAvailableKernelsForDroplet(dropletId) ==
  ThenField("get", <<"/droplets/", dropletId, "/kernels">>, Undefined, "kernels")

getSnapshotsForDroplet(dropletId) ==
  ThenField("get", <<"/droplets/", dropletId, "/snapshots">>, Undefined, "snapshots")

getBackupsForDroplet(dropletId) ==
  ThenField("get", <<"/droplets/", dropletId, "/backups">>, Undefined, "backups")

deleteDropletsByTag(tag) ==
  ThenUndefined("delete", <<"/droplets?tag_name=", tag>>, Undefined)

\* documented as a retrieval; the call is request.delete
getNeighborsForDroplet(dropletId) ==
  ThenField("delete", <<"/droplets/", dropletId, "/neighbors">>, Undefined, "droplets")

\* documented as a retrieval; the call is request.delete
getDropletNeighbors ==
  ThenField("delete", <<"/reports/droplet_neighbors">>, Undefined, "neighbors")

getUserInformation ==
  ThenField("get", <<"/account">>, Undefined, "account")

\* the continuation a service chains on the promise of the transport
Continue(then, result) ==
  IF result.kind = "rejected"
  THEN [kind |-> "rejected", error |-> result.error, value |-> Undefined]
  ELSE CASE then.kind = "result" ->
              [kind |-> "resolved", error |-> [name |-> "", message |-> ""],
               value |-> result.data]
         [] then.kind = "undefined" ->
              [kind |-> "resolved", error |-> [name |-> "", message |-> ""],
               value |-> Undefined]
         [] then.kind = "field" ->
              LET got == Prop(result.data, then.field) IN
              IF got.throws
              THEN [kind |-> "rejected",
                    error |-> [name |-> "TypeError",
                               message |-> "Cannot read properties of null"],
                    value |-> Undefined]
              ELSE [kind |-> "resolved", error |-> [name |-> "", message |-> ""],
                    value |-> got.v]

(***************************************************************************)
(* The inputs of the model: what callers pass and what the service         *)
(* answers.                                                                *)
(***************************************************************************)
API_BASE_URL == "https://api.digitalocean.com/v2"

Tokens == {"my-api-token", "other-token"}

Urls == {API_BASE_URL, "https://mock"}

\* an ActionRequest with the members that are not undefined, plus a region
MkActionRequest(type, dropletId, volumeName, sizeGigabytes) ==
  Obj((IF type = Undefined THEN <<>> ELSE << <<"type", type>> >>)
      \o (IF dropletId = Undefined THEN <<>> ELSE << <<"droplet_id", dropletId>> >>)
      \o (IF volumeName = Undefined THEN <<>> ELSE << <<"volume_name", volumeName>> >>)
      \o (IF sizeGigabytes = Undefined THEN <<>>
          ELSE << <<"size_gigabytes", sizeGigabytes>> >>)
      \o << <<"region", Str("nyc1")>> >>)

ActionRequests ==
  {MkActionRequest(type, dropletId, volumeName, sizeGigabytes) :
     type \in {Undefined, Str(""), Str("attach")},
     dropletId \in {Undefined, Num(0), Num(42)},
     volumeName \in {Undefined, Str("example")},
     sizeGigabytes \in {Undefined, Num(0), Num(100)}}

\* const o = {type: 'attach'}; o.self = o
SelfReferring == Obj(<< <<"type", Str("attach")>>, <<"self", Cyclic>> >>)

\* a BlockStorageRequest with the members that are not undefined, plus a region
MkVolumeRequest(sizeGigabytes, name) ==
  Obj((IF sizeGigabytes = Undefined THEN <<>>
       ELSE << <<"size_gigabytes", sizeGigabytes>> >>)
      \o (IF name = Undefined THEN <<>> ELSE << <<"name", name>> >>)
      \o << <<"region", Str("nyc1")>> >>)

VolumeRequests ==
  {MkVolumeRequest(sizeGigabytes, name) :
     sizeGigabytes \in {Undefined, Num(0), Num(10)},
     name \in {Undefined, Str(""), Str("example")}}

\* a CdnEndpointRequest with its origin when not undefined, plus a ttl
MkEndpointRequest(origin) ==
  Obj((IF origin = Undefined THEN <<>> ELSE << <<"origin", origin>> >>)
      \o << <<"ttl", Num(3600)>> >>)

EndpointRequests ==
  {MkEndpointRequest(origin) :
     origin \in {Undefined, Str(""), Str("static-images.nyc3.digitaloceanspaces.com")}}

\* resourceType?: SnapshotType, omitted or one of 'all', 'droplet', 'volume'
SnapshotTypes == {Undefined, Str("all"), Str("droplet"), Str("volume")}

\* one call of a method: its name, and its arguments by kind
Invoke(op, path, a, b, v) == [op |-> op, path |-> path, a |-> a, b |-> b, v |-> v]

\* the entry points of the transport, called directly
TransportInvocations ==
  {Invoke(verb, <<"/droplets/999">>, "", "", Undefined) : verb \in Verbs}
  \cup {Invoke(verb, <<"/volumes/v1/actions">>, "", "",
               MkActionRequest(Str("attach"), Num(42), Undefined, Undefined)) :
          verb \in {"put", "post", "patch", "delete"}}
  \cup {Invoke(verb, <<"/volumes/v1/actions">>, "", "", SelfReferring) :
          verb \in {"post", "delete"}}

VolumeActionOps ==
  {"attachVolumeToDroplet", "attachVolumeToDropletByName", "detachVolumeFromDroplet",
   "detachVolumeFromDropletByName", "resizeVolume"}

\* the operations that fetch one action by its id
PollOps ==
  {"getExistingAction", "getExistingVolumeAction", "getExistingImageAction",
   "getExistingFloatingIPAction"}

OtherOps ==
  {"assignFloatingIPToDroplet", "unassignFloatingIP", "getAllFloatingIPActions",
   "getExistingDroplet", "deleteDroplet", "getUserInformation",
   "getDropletActions", "getImageActions"}

\* the other methods of DropletService that take a droplet id or nothing
DropletOps ==
  {"getAllDroplets", "getAvailableKernelsForDroplet", "getSnapshotsForDroplet",
   "getBackupsForDroplet", "getNeighborsForDroplet", "getDropletNeighbors"}

\* the methods of DropletService that take a tag
DropletTagOps == {"getDropletsByTag", "deleteDropletsByTag"}

\* the action lists that take perPage and page
PagedOps == {"getAllActions", "getAllVolumeActions", "getAllDistributionImages"}

\* what callers pass for perPage and for page: nothing, or a number
PerPageArgs == {Undefined, Num(0), Num(10)}

PageArgs == {Undefined, Num(0), Num(2)}

ServiceInvocations ==
  {Invoke(op, <<>>, "v1", "", r) : op \in VolumeActionOps, r \in ActionRequests}
  \cup {Invoke(op, <<>>, "r1", "9", Undefined) : op \in PollOps}
  \cup {Invoke(op, <<>>, "999", "42", Undefined) : op \in OtherOps}
  \cup {Invoke(op, <<>>, "999", "", Undefined) : op \in DropletOps}
  \cup {Invoke(op, <<>>, "awesome", "", Undefined) : op \in DropletTagOps}
  \cup {Invoke("removeDropletsFromFirewall", <<>>, "f1", "", Arr(<<Num(42)>>))}
  \cup {Invoke("createBlockStorage", <<>>, "", "", r) : r \in VolumeRequests}
  \cup {Invoke("getSnapshots", <<>>, "", "", t) : t \in SnapshotTypes}
  \cup {Invoke("createEndpoint", <<>>, "", "", r) : r \in EndpointRequests}
  \cup {Invoke(op, <<>>, "v1", "", Arr(<<perPage, page>>)) :
          op \in PagedOps, perPage \in PerPageArgs, page \in PageArgs}

\* what the method does up to its call of the transport
Plan(i) ==
  CASE i.op \in Verbs -> Direct(i.op, i.path, i.v)
    [] i.op = "attachVolumeToDroplet" -> attachVolumeToDroplet(i.a, i.v)
    [] i.op = "attachVolumeToDropletByName" -> attachVolumeToDropletByName(i.v)
    [] i.op = "detachVolumeFromDroplet" -> detachVolumeFromDroplet(i.a, i.v)
    [] i.op = "detachVolumeFromDropletByName" -> detachVolumeFromDropletByName(i.v)
    [] i.op = "resizeVolume" -> resizeVolume(i.a, i.v)
    [] i.op = "getExistingAction" -> getExistingAction(i.b)
    [] i.op = "getExistingVolumeAction" -> getExistingVolumeAction(i.a, i.b)
    [] i.op = "getExistingImageAction" -> getExistingImageAction(i.a, i.b)
    [] i.op = "getExistingFloatingIPAction" -> getExistingFloatingIPAction(i.a, i.b)
    [] i.op = "assignFloatingIPToDroplet" -> assignFloatingIPToDroplet(i.a, i.b)
    [] i.op = "unassignFloatingIP" -> unassignFloatingIP(i.a)
    [] i.op = "getAllFloatingIPActions" -> getAllFloatingIPActions(i.a)
    [] i.op = "getExistingDroplet" -> getExistingDroplet(i.a)
    [] i.op = "deleteDroplet" -> deleteDroplet(i.a)
    [] i.op = "getUserInformation" -> getUserInformation
    [] i.op = "getDropletActions" -> getDropletActions(i.a)
    [] i.op = "getAllDroplets" -> getAllDroplets
    [] i.op = "getSnapshots" -> getSnapshots(i.v)
    [] i.op = "createBlockStorage" -> createBlockStorage(i.v)
    [] i.op = "createEndpoint" -> createEndpoint(i.v)
    [] i.op = "removeDropletsFromFirewall" -> removeDropletsFromFirewall(i.a, i.v)
    [] i.op = "getDropletsByTag" -> getDropletsByTag(i.a)
    [] i.op = "getAvailableKernelsForDroplet" -> getAvailableKernelsForDroplet(i.a)
    [] i.op = "getSnapshotsForDroplet" -> getSnapshotsForDroplet(i.a)
    [] i.op = "getBackupsForDroplet" -> getBackupsForDroplet(i.a)
    [] i.op = "deleteDropletsByTag" -> deleteDropletsByTag(i.a)
    [] i.op = "getNeighborsForDroplet" -> getNeighborsForDroplet(i.a)
    [] i.op = "getDropletNeighbors" -> getDropletNeighbors
    [] i.op = "getImageActions" -> getImageActions(i.a)
    [] i.op = "getAllActions" -> getAllActions(i.v.e[1], i.v.e[2])
    [] i.op = "getAllVolumeActions" -> getAllVolumeActions(i.a, i.v.e[1], i.v.e[2])
    [] i.op = "getAllDistributionImages" -> getAllDistributionImages(i.v.e[1], i.v.e[2])

Statuses == {200, 202, 400, 401, 404, 500, 501}

ActionStatuses == {"in-progress", "completed", "errored"}

\* {action: {id: 9, status: <status>}}
ActionEnvelope(status) ==
  Obj(<< <<"action", Obj(<< <<"id", Num(9)>>, <<"status", Str(status)>> >>)>> >>)

\* the JSON bodies the service answers with while the action has this status
Envelopes(status) ==
  {ActionEnvelope(status),
   Obj(<< <<"actions", Arr(<<Get(ActionEnvelope(status), "action")>>)>> >>),
   Obj(<< <<"droplet", Obj(<< <<"id", Num(999)>> >>)>> >>),
   Obj(<< <<"id", Str("not_found")>> >>)}

\* the bodies of a response: JSON, empty, cut short, not JSON at all
Bodies(status) ==
  {Stringify(e) : e \in Envelopes(status)}
  \cup {<<>>, <<P("{"), TStr("action"), P(":")>>, <<Junk>>}

\* a response: its status and its body, which may fail to be read
Response(status, readable, toks) ==
  [status |-> status, readable |-> readable, toks |-> toks]

(***************************************************************************)
(* The state.                                                              *)
(***************************************************************************)
VARIABLES
  request,   \* the RequestTool every service imports: baseUrl and token
  axios,     \* the defaults of the axios instance the constructor writes
  clients,   \* the DigitalOcean instances constructed, in order
  calls,     \* the calls of transport and service methods, by slot
  action,    \* the status of action 9 at the service
  served,    \* per poll answered, the action status the service sent
  observed   \* per poll settled, what the polling caller got

vars == <<request, axios, clients, calls, action, served, observed>>

Slots == 1..MaxCalls

Idle == [pc |-> "idle"]

NoFetch == [none |-> TRUE]

NoResponse == Response(0, FALSE, <<>>)

NoResult == [kind |-> "none"]

NoOutcome == [kind |-> "none"]

Init ==
  /\ request = [baseUrl |-> "", token |-> ""]
  /\ axios = [Authorization |-> <<>>, ContentType |-> <<>>, baseURL |-> ""]
  /\ clients = <<>>
  /\ calls = [c \in Slots |-> Idle]
  /\ action = "in-progress"
  /\ served = <<>>
  /\ observed = <<>>

(***************************************************************************)
(* The operations.                                                         *)
(***************************************************************************)
\* #query with fetch called before the body is serialised
QueryStart_SerializesLate(method, path, body, this) ==
  IF HasCycle(body)
  THEN [throws |-> TRUE,
        error |-> [name |-> "TypeError",
                   message |-> "Converting circular structure to JSON"],
        fetch |-> FetchArgs(method, path, Undefined, this.baseUrl, this.token),
        this |-> this]
  ELSE [throws |-> FALSE,
        error |-> [name |-> "", message |-> ""],
        fetch |-> FetchArgs(method, path, body, this.baseUrl, this.token),
        this |-> this]

\* #query with the url of the request kept in this.baseUrl
QueryStart_KeepsUrl(method, path, body, this) ==
  IF HasCycle(body)
  THEN [throws |-> TRUE,
        error |-> [name |-> "TypeError",
                   message |-> "Converting circular structure to JSON"],
        fetch |-> NoFetch,
        this |-> this]
  ELSE [throws |-> FALSE,
        error |-> [name |-> "", message |-> ""],
        fetch |-> FetchArgs(method, path, body, this.baseUrl, this.token),
        this |-> [this EXCEPT !.baseUrl = "sent"]]

\* #query up to its first await: JSON.stringify throws, or fetch is called; this is
\* read and not assigned to
QueryStart(method, path, body, this) ==
  IF HasCycle(body)
  THEN [throws |-> TRUE,
        error |-> [name |-> "TypeError",
                   message |-> "Converting circular structure to JSON"],
        fetch |-> NoFetch,
        this |-> this]
  ELSE [throws |-> FALSE,
        error |-> [name |-> "", message |-> ""],
        fetch |-> FetchArgs(method, path, body, this.baseUrl, this.token),
        this |-> this]

\* what #query settles with when fetch rejects
FetchFailed ==
  [kind |-> "rejected",
   error |-> [name |-> "TypeError", message |-> "fetch failed"],
   response |-> NoResponse,
   text |-> Null,
   data |-> Null]

Rejected(error) == [kind |-> "rejected", error |-> error, value |-> Undefined]

\* the action status a response carries to a poll, "none" when it carries none
ServedStatus(response) ==
  IF response.status > 400 \/ ~response.readable THEN "none"
  ELSE LET parsed == JSONparseToks(response.toks)
           status == IF parsed.throws THEN Undefined
                     ELSE Get(Get(parsed.v, "action"), "status")
       IN IF status.t = "str" THEN status.s ELSE "none"

\* what the polling caller sees of a settled poll
ObservedStatus(outcome) ==
  IF outcome.kind = "rejected" THEN "rejected"
  ELSE LET status == Get(outcome.value, "status")
       IN IF status.t = "str" THEN status.s ELSE "none"

\* the polling caller awaits each poll and stops at a terminal status or a rejection
MayPoll ==
  /\ Len(served) < MaxPolls
  /\ IF observed = <<>> THEN TRUE ELSE observed[Len(observed)] = "in-progress"

\* the loop of the polling caller has started; it is the last thing a caller does, so
\* that the log of a loop is not carried through the calls of other methods
Polling ==
  \/ served # <<>>
  \/ observed # <<>>
  \/ \E c \in DOMAIN calls : calls[c].pc # "idle" /\ calls[c].inv.op \in PollOps

\* the constructor of DigitalOcean: it writes the defaults of axios and makes the
\* services, which take no argument
NewDigitalOcean(token, url) ==
  /\ axios' = [Authorization |-> <<"Bearer ", token>>,
               ContentType |-> <<"application/json">>,
               baseURL |-> url]
  /\ clients' = Append(clients, [token |-> token, url |-> url])
  /\ UNCHANGED <<request, calls, action, served, observed>>

\* new DigitalOcean(token, url)
Construct(token, url) ==
  /\ Len(clients) < MaxClients
  /\ NewDigitalOcean(token, url)

\* the calls that have started and not settled
InFlight == {d \in Slots : calls[d].pc \in {"awaitFetch", "awaitText"}}

\* the method runs in slot c: it throws, or runs up to the await of fetch; the call
\* keeps what request held when it began and whether other calls were in flight
Begin(c, client, i) ==
  LET plan == Plan(i)
      q == EntryPoint(plan.verb, plan.path, plan.value)
      start == QueryStart(q.method, q.path, q.body, request)
      new == [client |-> client, inv |-> i, config |-> request,
              overlaps |-> InFlight # {}, fetched |-> NoFetch, nfetch |-> 0,
              response |-> NoResponse, result |-> NoResult]
  IN /\ calls' = [calls EXCEPT ![c] =
          IF plan.throws
          THEN new @@ [pc |-> "done", then |-> [kind |-> "none", field |-> ""],
                       outcome |-> Rejected(plan.error)]
          ELSE IF start.throws
          THEN [new EXCEPT !.fetched = start.fetch,
                           !.nfetch = IF start.fetch = NoFetch THEN 0 ELSE 1]
               @@ [pc |-> "done", then |-> plan.then, outcome |-> Rejected(start.error)]
          ELSE [new EXCEPT !.fetched = start.fetch, !.nfetch = 1]
               @@ [pc |-> "awaitFetch", then |-> plan.then, outcome |-> NoOutcome]]
     /\ request' = IF plan.throws THEN request ELSE start.this

\* a caller calls a method, having awaited its last call; the call takes the first slot
Call(c, client, i) ==
  /\ \A d \in Slots : calls[d] = Idle
  /\ c = 1
  /\ IF i.op \in PollOps THEN MayPoll ELSE ~Polling
  /\ Begin(c, client, i)
  /\ UNCHANGED <<axios, clients, action, served, observed>>

\* the response kept in one place for all calls: the one of the first call holding one
ResponseOf_Shared(cs, c) ==
  LET holding == {d \in DOMAIN cs : cs[d].pc = "awaitText"}
  IN cs[CHOOSE d \in holding : \A e \in holding : d <= e].response

\* const response of #query: each call has its own
ResponseOf(cs, c) == cs[c].response

\* the promise of fetch resolves with a response
FetchResolves(c, response) ==
  /\ calls[c].pc = "awaitFetch"
  /\ calls' = [calls EXCEPT ![c].pc = "awaitText", ![c].response = response]
  /\ served' = IF calls[c].inv.op \in PollOps
               THEN Append(served, ServedStatus(response)) ELSE served
  /\ UNCHANGED <<request, axios, clients, action, observed>>

\* a rejected fetch caught and the request issued once more
OnFetchRejected_Retry(call) ==
  IF call.nfetch < 2
  THEN [call EXCEPT !.nfetch = @ + 1]
  ELSE [call EXCEPT !.pc = "done", !.result = FetchFailed,
                    !.outcome = Continue(call.then, FetchFailed)]

\* await fetch(...) throws: nothing in #query catches it, the call settles
OnFetchRejected(call) ==
  [call EXCEPT !.pc = "done", !.result = FetchFailed,
               !.outcome = Continue(call.then, FetchFailed)]

\* the promise of fetch rejects: #query rejects with the same error
FetchRejects(c) ==
  /\ calls[c].pc = "awaitFetch"
  /\ LET outcome == Continue(calls[c].then, FetchFailed) IN
     /\ calls' = [calls EXCEPT ![c] = OnFetchRejected(calls[c])]
     /\ served' = IF calls[c].inv.op \in PollOps THEN Append(served, "none") ELSE served
     /\ observed' = IF calls[c].inv.op \in PollOps
                    THEN Append(observed, ObservedStatus(outcome)) ELSE observed
  /\ UNCHANGED <<request, axios, clients, action>>

\* the text of the response is there: #query settles and the continuation runs
TextSettles(c) ==
  /\ calls[c].pc = "awaitText"
  /\ LET result == QueryResult(ResponseOf(calls, c))
         outcome == Continue(calls[c].then, result)
     IN /\ calls' = [calls EXCEPT ![c].pc = "done", ![c].result = result,
                                  ![c].outcome = outcome]
        /\ observed' = IF calls[c].inv.op \in PollOps
                       THEN Append(observed, ObservedStatus(outcome)) ELSE observed
  /\ UNCHANGED <<request, axios, clients, action, served>>

\* the caller has taken the outcome of the call
Return(c) ==
  /\ calls[c].pc = "done"
  /\ calls' = [calls EXCEPT ![c] = Idle]
  /\ UNCHANGED <<request, axios, clients, action, served, observed>>

\* the service finishes action 9; only a poll shows it, so it is taken between polls
ServerAdvance(status) ==
  /\ action = "in-progress"
  /\ \E c \in Slots : calls[c].pc = "awaitFetch" /\ calls[c].inv.op \in PollOps
  /\ action' = status
  /\ UNCHANGED <<request, axios, clients, calls, served, observed>>

\* the responses the service may send while the action has this status
Responses(status) ==
  {Response(s, TRUE, b) : s \in Statuses, b \in Bodies(status)}
  \cup {Response(s, FALSE, <<>>) : s \in Statuses}

Next ==
  \/ \E token \in Tokens, url \in Urls : Construct(token, url)
  \/ \E c \in Slots, i \in TransportInvocations : Call(c, 0, i)
  \/ \E c \in Slots, k \in 1..Len(clients), i \in ServiceInvocations : Call(c, k, i)
  \/ \E c \in Slots, r \in Responses(action) : FetchResolves(c, r)
  \/ \E c \in Slots : FetchRejects(c)
  \/ \E c \in Slots : TextSettles(c)
  \/ \E c \in Slots : Return(c)
  \/ \E status \in {"completed", "errored"} : ServerAdvance(status)

Spec == Init /\ [][Next]_vars

(***************************************************************************)
(* The transport under callers that do not await: calls of the entry       *)
(* points overlap, and the importer of the module assigns the public       *)
(* fields of request between them.                                         *)
(***************************************************************************)
\* request.baseUrl = baseUrl; request.token = token
Configure(baseUrl, token) ==
  /\ request # [baseUrl |-> baseUrl, token |-> token]
  /\ request' = [baseUrl |-> baseUrl, token |-> token]
  /\ UNCHANGED <<axios, clients, calls, action, served, observed>>

\* a caller calls an entry point while other calls may be in flight
CallConcurrently(c, i) ==
  /\ calls[c] = Idle
  /\ Begin(c, 0, i)
  /\ UNCHANGED <<axios, clients, action, served, observed>>

ConcurrentInvocations ==
  {i \in TransportInvocations : i.op = "get" \/ (i.op = "post" /\ i.v # Undefined)}

ConcurrentResponses ==
  {Response(200, TRUE, Stringify(ActionEnvelope("in-progress"))),
   Response(404, TRUE, Stringify(Obj(<< <<"id", Str("not_found")>> >>))),
   Response(501, FALSE, <<>>)}

NextConcurrent ==
  \/ \E token \in Tokens : Configure(API_BASE_URL, token)
  \/ \E c \in Slots, i \in ConcurrentInvocations : CallConcurrently(c, i)
  \/ \E c \in Slots, r \in ConcurrentResponses : FetchResolves(c, r)
  \/ \E c \in Slots : FetchRejects(c)
  \/ \E c \in Slots : TextSettles(c)
  \/ \E c \in Slots : Return(c)

SpecConcurrent == Init /\ [][NextConcurrent]_vars

(***************************************************************************)
(* A caller that polls an action by its id and polls again whatever the    *)
(* last poll gave it, while the service finishes the action.               *)
(***************************************************************************)
\* the next poll of the loop, the last one awaited
Poll(c, client, i) ==
  /\ \A d \in Slots : calls[d] = Idle
  /\ c = 1
  /\ Len(served) < MaxPolls
  /\ Begin(c, client, i)
  /\ UNCHANGED <<axios, clients, action, served, observed>>

PollInvocations ==
  {i \in ServiceInvocations : i.op \in {"getExistingAction", "getExistingVolumeAction"}}

\* what the service answers a poll with while the action has this status
PollResponses(status) ==
  {Response(s, TRUE, b) :
     s \in {200, 404, 501},
     b \in {Stringify(ActionEnvelope(status)), <<Junk>>}}
  \cup {Response(200, FALSE, <<>>)}

NextPolling ==
  \/ \E token \in Tokens : Construct(token, API_BASE_URL)
  \/ \E c \in Slots, k \in 1..Len(clients), i \in PollInvocations : Poll(c, k, i)
  \/ \E c \in Slots, r \in PollResponses(action) : FetchResolves(c, r)
  \/ \E c \in Slots : FetchRejects(c)
  \/ \E c \in Slots : TextSettles(c)
  \/ \E c \in Slots : Return(c)
  \/ \E status \in {"completed", "errored"} : ServerAdvance(status)

SpecPolling == Init /\ [][NextPolling]_vars

(***************************************************************************)
(* The transport against a test double that echoes: the response to a      *)
(* request with a body has that body as its own.                           *)
(***************************************************************************)
\* JSON-serializable bodies: primitives, arrays and objects, empty and nested
EchoBodies ==
  {Null, Bool(TRUE), Num(0), Num(42), Str(""), Str("nyc1"),
   Arr(<<>>), Arr(<<Num(1), Str("a"), Null>>), Obj(<<>>),
   MkActionRequest(Str("attach"), Num(42), Undefined, Undefined),
   Obj(<< <<"type", Str("resize")>>,
          <<"tags", Arr(<<Str("a"), Obj(<< <<"id", Num(9)>> >>)>>)>>,
          <<"nested", Obj(<< <<"size_gigabytes", Num(100)>>, <<"ok", Bool(FALSE)>> >>)>> >>)}

EchoInvocations ==
  {Invoke(verb, <<"/echo">>, "", "", b) : verb \in {"put", "post", "patch"}, b \in EchoBodies}

\* the double answers with the body it was sent
Echoes(c, status) ==
  /\ calls[c].pc = "awaitFetch"
  /\ calls[c].fetched.body.present
  /\ FetchResolves(c, Response(status, TRUE, calls[c].fetched.body.toks))

NextEcho ==
  \/ \E c \in Slots, i \in EchoInvocations : Call(c, 0, i)
  \/ \E c \in Slots, status \in {200, 201} : Echoes(c, status)
  \/ \E c \in Slots : TextSettles(c)
  \/ \E c \in Slots : Return(c)

SpecEcho == Init /\ [][NextEcho]_vars

(***************************************************************************)
(* Several DigitalOcean instances in one process, constructed in any order *)
(* and called through without awaiting.                                    *)
(***************************************************************************)
\* new DigitalOcean(token, url), next to the instances there are
ConstructInstance(token, url) ==
  /\ Len(clients) < MaxInstances
  /\ NewDigitalOcean(token, url)

\* a caller calls a method of a service of instance k while other calls may be in flight
CallThrough(c, k, i) ==
  /\ calls[c] = Idle
  /\ Begin(c, k, i)
  /\ UNCHANGED <<axios, clients, action, served, observed>>

InstanceInvocations ==
  {i \in ServiceInvocations : i.op \in {"getUserInformation", "deleteDroplet"}}

NextInstances ==
  \/ \E token \in Tokens, url \in Urls : ConstructInstance(token, url)
  \/ \E c \in Slots, k \in 1..Len(clients), i \in InstanceInvocations :
       CallThrough(c, k, i)
  \/ \E c \in Slots, r \in ConcurrentResponses : FetchResolves(c, r)
  \/ \E c \in Slots : FetchRejects(c)
  \/ \E c \in Slots : TextSettles(c)
  \/ \E c \in Slots : Return(c)

SpecInstances == Init /\ [][NextInstances]_vars

(***************************************************************************)
(* What the properties below speak of.                                     *)
(***************************************************************************)
Started(c) == calls[c] # Idle

Settled(c) == calls[c].pc = "done"

\* the call has settled after a response arrived
Answered(c) == Settled(c) /\ calls[c].response # NoResponse

IsTransportCall(c) == calls[c].inv.op \in Verbs

IsServiceCall(c) == calls[c].inv.op \notin Verbs

ValidJSON(response) == response.readable /\ ~JSONparseToks(response.toks).throws

\* the raw body as received: null when it could not be read
RawText(response) == IF response.readable THEN Text(response.toks) ELSE Null

\* the fields the claims name as required, per volume action
RequiredFields(op) ==
  CASE op \in {"attachVolumeToDroplet", "detachVolumeFromDroplet"} ->
         {"type", "droplet_id"}
    [] op \in {"attachVolumeToDropletByName", "detachVolumeFromDropletByName"} ->
         {"type", "droplet_id", "volume_name"}
    [] op = "resizeVolume" -> {"type", "size_gigabytes"}

\* the call was refused with the message of the local validation, and nothing was sent
RefusedLocally(c) ==
  /\ Settled(c)
  /\ calls[c].outcome.kind = "rejected"
  /\ calls[c].outcome.error.message = MissingActionFields
  /\ calls[c].nfetch = 0
  /\ calls[c].fetched = NoFetch
  /\ calls[c].response = NoResponse

\* the call went to the network as one POST of the action request
PostedOnce(c) ==
  /\ calls[c].nfetch = 1
  /\ calls[c].fetched # NoFetch
  /\ calls[c].fetched.method = "POST"
  /\ calls[c].fetched.body = [present |-> TRUE, toks |-> Stringify(calls[c].inv.v)]

(***************************************************************************)
(* C1: a response with a status of at most 400 and a valid JSON body       *)
(* resolves the transport call with data equal to the parsed body.         *)
(***************************************************************************)
C1_DataIsParsedBody ==
  \A c \in Slots :
    (Answered(c) /\ calls[c].response.status <= 400 /\ ValidJSON(calls[c].response))
    => /\ calls[c].result.kind = "resolved"
       /\ calls[c].result.data = JSONparseToks(calls[c].response.toks).v

(***************************************************************************)
(* C2: a response with a status in (400, 500] rejects the call with        *)
(* 'Client Error Result', and the rejection carries the status received.   *)
(***************************************************************************)
C2_ClientErrorBand ==
  \A c \in Slots :
    (Answered(c) /\ calls[c].response.status > 400 /\ calls[c].response.status <= 500)
    => /\ calls[c].result.kind = "rejected"
       /\ calls[c].result.error.message = "Client Error Result"
       /\ calls[c].result.response.status = calls[c].response.status
       /\ calls[c].outcome.kind = "rejected"
       /\ calls[c].outcome.error.message = "Client Error Result"

C2_Witness ==
  \E c \in Slots :
    /\ Answered(c)
    /\ IsTransportCall(c)
    /\ calls[c].response.status = 500
    /\ calls[c].outcome.kind = "rejected"

(***************************************************************************)
(* C3: a response with a status above 500 rejects the call with 'Server    *)
(* Error Result', never with a client error and never with a success.      *)
(***************************************************************************)
C3_ServerErrorBand ==
  \A c \in Slots :
    (Answered(c) /\ calls[c].response.status > 500)
    => /\ calls[c].result.kind = "rejected"
       /\ calls[c].result.error.message = "Server Error Result"
       /\ calls[c].outcome.kind = "rejected"
       /\ calls[c].outcome.error.message = "Server Error Result"

C3_Witness ==
  \E c \in Slots :
    /\ Answered(c)
    /\ IsTransportCall(c)
    /\ calls[c].response.status = 501
    /\ calls[c].outcome.kind = "rejected"

(***************************************************************************)
(* C4: a call rejected for the status of its response carries the          *)
(* response, the raw text, and the decoded data when the body is valid     *)
(* JSON.                                                                   *)
(***************************************************************************)
C4_RejectionCarriesData ==
  \A c \in Slots :
    (Answered(c) /\ calls[c].result.kind = "rejected")
    => /\ calls[c].result.response = calls[c].response
       /\ calls[c].result.text = RawText(calls[c].response)
       /\ ValidJSON(calls[c].response)
            => calls[c].result.data = JSONparseToks(calls[c].response.toks).v

(***************************************************************************)
(* C5: a response with a status of at most 400 whose body is empty,        *)
(* unreadable or not valid JSON resolves the call, with data null and text *)
(* the raw body (null when the body could not be read).                    *)
(***************************************************************************)
C5_DecodeFailureResolves ==
  \A c \in Slots :
    (Answered(c) /\ calls[c].response.status <= 400 /\ ~ValidJSON(calls[c].response))
    => /\ calls[c].result.kind = "resolved"
       /\ calls[c].result.data = Null
       /\ calls[c].result.text = RawText(calls[c].response)
       /\ IsTransportCall(c) => calls[c].outcome.kind = "resolved"

C5_Witness ==
  \E c \in Slots :
    /\ Answered(c)
    /\ IsTransportCall(c)
    /\ calls[c].response.status = 200
    /\ calls[c].response.readable
    /\ calls[c].response.toks = <<Junk>>
    /\ calls[c].outcome.kind = "resolved"

(***************************************************************************)
(* C6: after new DigitalOcean(token, url), every request issued through a  *)
(* service of that client goes to url + path and carries the header        *)
(* Authorization: Bearer <token>.                                          *)
(***************************************************************************)
C6_RequestsUseClientConfig ==
  \A c \in Slots :
    (Started(c) /\ IsServiceCall(c) /\ calls[c].nfetch = 1)
    => LET client == clients[calls[c].client] IN
       /\ calls[c].fetched.url = <<client.url>> \o Plan(calls[c].inv).path
       /\ calls[c].fetched.headers["Authorization"] = <<"Bearer ", client.token>>

(***************************************************************************)
(* C7: a service method makes exactly one transport call and, when the     *)
(* call succeeds with a JSON envelope, resolves with the named field of    *)
(* the decoded envelope.                                                   *)
(***************************************************************************)
C7_ServiceResolvesWithField ==
  \A c \in Slots :
    (Answered(c) /\ IsServiceCall(c) /\ calls[c].then.kind = "field"
       /\ calls[c].response.status <= 400 /\ ValidJSON(calls[c].response))
    => /\ calls[c].nfetch = 1
       /\ calls[c].outcome.kind = "resolved"
       /\ calls[c].outcome.value =
            Get(JSONparseToks(calls[c].response.toks).v, calls[c].then.field)

(***************************************************************************)
(* C8: a caller polling a get-action-by-id operation observes the statuses *)
(* the service answers with, in the order of the answers; an answer of     *)
(* errored resolves the poll, it does not reject.                          *)
(***************************************************************************)
C8_PollsObserveServedStatuses ==
  /\ Len(observed) <= Len(served)
  /\ \A n \in 1..Len(observed) :
       served[n] \in ActionStatuses => observed[n] = served[n]

(***************************************************************************)
(* C9: a volume action whose request fails the local validation fails with *)
(* 'Required fields missing from Action Object' and issues no network      *)
(* request at any point of the call.                                       *)
(***************************************************************************)
C9_InvalidActionNeverSent ==
  \A c \in Slots :
    (Started(c) /\ calls[c].inv.op \in VolumeActionOps)
    => /\ (\E f \in RequiredFields(calls[c].inv.op) : Falsy(Get(calls[c].inv.v, f)))
            => RefusedLocally(c)
       /\ calls[c].outcome.kind = "rejected"
            /\ calls[c].outcome.error.message = MissingActionFields
            => RefusedLocally(c)

C9_Witness ==
  \E c \in Slots :
    /\ Started(c)
    /\ calls[c].inv.op = "detachVolumeFromDropletByName"
    /\ ~Has(calls[c].inv.v, "volume_name")
    /\ RefusedLocally(c)

(***************************************************************************)
(* C10, as claimed: a volume action is accepted exactly when its required  *)
(* fields are present in the request; an accepted request leads to one     *)
(* POST and any other is rejected.                                         *)
(***************************************************************************)
C10_AcceptedIffPresent ==
  \A c \in Slots :
    (Started(c) /\ calls[c].inv.op \in VolumeActionOps)
    => IF \A f \in RequiredFields(calls[c].inv.op) : Has(calls[c].inv.v, f)
       THEN PostedOnce(c)
       ELSE RefusedLocally(c)

(***************************************************************************)
(* C10, amended: a volume action is accepted exactly when each of its      *)
(* required fields is present with a truthy value (a non-empty string, a   *)
(* number other than 0); an accepted request leads to exactly one POST and *)
(* any other is rejected before the network.                               *)
(***************************************************************************)
C10_AcceptedIffTruthy ==
  \A c \in Slots :
    (Started(c) /\ calls[c].inv.op \in VolumeActionOps)
    => IF \A f \in RequiredFields(calls[c].inv.op) : ~Falsy(Get(calls[c].inv.v, f))
       THEN PostedOnce(c)
       ELSE RefusedLocally(c)

C10_Witness ==
  \E c \in Slots :
    /\ Settled(c)
    /\ calls[c].inv.op = "resizeVolume"
    /\ ~Has(calls[c].inv.v, "droplet_id")
    /\ PostedOnce(c)
    /\ calls[c].response # NoResponse

(***************************************************************************)
(* What the properties of the requests speak of.                           *)
(***************************************************************************)
\* the call reached fetch: the request it issued is calls[c].fetched
Issued(c) == Started(c) /\ calls[c].nfetch >= 1

\* the entry point of the transport the call went through
VerbOf(c) == Plan(calls[c].inv).verb

\* the payload argument the entry point was called with
PayloadOf(c) == Plan(calls[c].inv).value

HasHeader(c, name) == name \in DOMAIN calls[c].fetched.headers

(***************************************************************************)
(* C11: every request built by put, post or patch with a body carries      *)
(* Content-Type: application/json, and no request built by get, head, or   *)
(* delete without a body carries a Content-Type header.                    *)
(***************************************************************************)
C11_ContentTypeByVerb ==
  \A c \in Slots :
    Issued(c) =>
      /\ (VerbOf(c) \in {"put", "post", "patch"} /\ calls[c].fetched.body.present)
           => /\ HasHeader(c, "Content-Type")
              /\ calls[c].fetched.headers["Content-Type"] = <<"application/json">>
      /\ (VerbOf(c) \in {"get", "head"}
             \/ (VerbOf(c) = "delete" /\ ~calls[c].fetched.body.present))
           => ~HasHeader(c, "Content-Type")

C11_Witness ==
  /\ \E c \in Slots :
       /\ Issued(c)
       /\ IsTransportCall(c)
       /\ VerbOf(c) = "delete"
       /\ ~calls[c].fetched.body.present
       /\ ~HasHeader(c, "Content-Type")
       /\ Settled(c)

(***************************************************************************)
(* C12: every request the transport issues, for every verb and with or     *)
(* without a body, carries Accept: application/json, text/plain, */* and   *)
(* Authorization: Bearer <token>, the token being the one the transport    *)
(* held when the call was issued.                                          *)
(***************************************************************************)
C12_AcceptAndAuthorization ==
  \A c \in Slots :
    Issued(c) =>
      /\ HasHeader(c, "Accept")
      /\ calls[c].fetched.headers["Accept"] = <<"application/json, text/plain, */*">>
      /\ HasHeader(c, "Authorization")
      /\ calls[c].fetched.headers["Authorization"] = <<"Bearer ", calls[c].config.token>>

C12_Witness ==
  \E c \in Slots :
    /\ Issued(c)
    /\ calls[c].config.token = "my-api-token"
    /\ request.token = "other-token"
    /\ calls[c].fetched.headers["Authorization"] = <<"Bearer ", "my-api-token">>
    /\ calls[c].fetched.body.present

(***************************************************************************)
(* C13: no request issued through get or head carries a body; a request    *)
(* carries a body only when it was issued through put, post, patch or      *)
(* delete with a payload argument.                                         *)
(***************************************************************************)
C13_BodyOnlyWithPayload ==
  \A c \in Slots :
    Issued(c) =>
      /\ VerbOf(c) \in {"get", "head"} => calls[c].fetched.body = NoBody
      /\ calls[c].fetched.body.present
           => /\ VerbOf(c) \in {"put", "post", "patch", "delete"}
              /\ PayloadOf(c) # Undefined
              /\ calls[c].fetched.body.toks = Stringify(PayloadOf(c))

C13_Witness ==
  \E c \in Slots :
    /\ Issued(c)
    /\ IsTransportCall(c)
    /\ VerbOf(c) = "delete"
    /\ calls[c].fetched.body.present
    /\ Settled(c)

(***************************************************************************)
(* C14: a transport call whose body cannot be serialized as JSON fails     *)
(* with the error of the serialization, and no network request is issued   *)
(* for that call.                                                          *)
(***************************************************************************)
C14_UnserializableBodyNeverSent ==
  \A c \in Slots :
    (Started(c) /\ IsTransportCall(c) /\ HasCycle(PayloadOf(c)))
    => /\ Settled(c)
       /\ calls[c].outcome.kind = "rejected"
       /\ calls[c].outcome.error =
            [name |-> "TypeError", message |-> "Converting circular structure to JSON"]
       /\ calls[c].nfetch = 0
       /\ calls[c].fetched = NoFetch
       /\ calls[c].response = NoResponse

C14_Witness ==
  \E c \in Slots :
    /\ Started(c)
    /\ calls[c].inv.op = "post"
    /\ calls[c].inv.v = SelfReferring
    /\ calls[c].outcome.kind = "rejected"
    /\ calls[c].nfetch = 0

(***************************************************************************)
(* C15: every call issues at most one network request whatever its         *)
(* outcome: a rejected fetch, a failure status or an undecodable body is   *)
(* followed by no second request, and the failure is the outcome of that   *)
(* same call.                                                              *)
(***************************************************************************)
C15_AtMostOneRequest ==
  \A c \in Slots :
    Started(c) =>
      /\ calls[c].nfetch <= 1
      /\ (Settled(c) /\ Issued(c))
           => /\ calls[c].nfetch = 1
              /\ calls[c].result.kind = "rejected"
                   => /\ calls[c].outcome.kind = "rejected"
                      /\ calls[c].outcome.error = calls[c].result.error
              /\ calls[c].response = NoResponse => calls[c].result = FetchFailed

C15_Witness ==
  \E c \in Slots :
    /\ Settled(c)
    /\ IsTransportCall(c)
    /\ calls[c].nfetch = 1
    /\ calls[c].response = NoResponse
    /\ calls[c].result = FetchFailed
    /\ calls[c].outcome.kind = "rejected"

(***************************************************************************)
(* C16: under any interleaving of calls issued concurrently through the    *)
(* same transport, the outcome of each call (resolve or reject, response,  *)
(* text and data) is determined by the response to its own request only:   *)
(* it carries its own response and the text of it, and two calls answered  *)
(* alike settle alike whatever the other calls sent, received or failed    *)
(* with.                                                                   *)
(***************************************************************************)
C16_CallsAreIndependent ==
  \A c \in Slots :
    (Settled(c) /\ Issued(c)) =>
      /\ IF calls[c].response = NoResponse
         THEN calls[c].result = FetchFailed
         ELSE /\ calls[c].result.response = calls[c].response
              /\ calls[c].result.text = RawText(calls[c].response)
              /\ calls[c].result.kind =
                   IF calls[c].response.status > 400 THEN "rejected" ELSE "resolved"
      /\ \A d \in Slots :
           (Settled(d) /\ Issued(d) /\ calls[d].response = calls[c].response)
           => calls[d].result = calls[c].result

C16_Witness ==
  \E c, d \in Slots :
    /\ c # d
    /\ Settled(c) /\ Issued(c)
    /\ Settled(d) /\ Issued(d)
    /\ calls[d].overlaps
    /\ calls[c].response.status = 200
    /\ calls[c].result.kind = "resolved"
    /\ calls[d].response.status = 501
    /\ calls[d].result.kind = "rejected"

(***************************************************************************)
(* C17: no step of a transport call, whether the call resolves or rejects, *)
(* changes the base URL or the token of the transport: both have the same  *)
(* value after the step as before it.                                      *)
(***************************************************************************)
C17_CallsLeaveConfigAlone ==
  [][calls' # calls => request' = request]_vars

C17_Witness ==
  \E c, d \in Slots :
    /\ Settled(c) /\ Issued(c) /\ calls[c].result.kind = "resolved"
    /\ Settled(d) /\ calls[d].outcome.kind = "rejected"
    /\ calls[c].config.token = "my-api-token"
    /\ calls[d].config = calls[c].config
    /\ request = calls[c].config

(***************************************************************************)
(* What the properties of the action lists speak of.                       *)
(***************************************************************************)
RECURSIVE Join(_)
\* the string the parts of a template literal make
Join(parts) == IF parts = <<>> THEN "" ELSE parts[1] \o Join(Tail(parts))

\* the operations that list actions: of the account, and of one resource
ActionListOps ==
  {"getAllActions", "getAllVolumeActions", "getDropletActions", "getImageActions",
   "getAllFloatingIPActions"}

\* the endpoint of the list, before its query
ListEndpoint(i) ==
  CASE i.op = "getAllActions" -> "/actions"
    [] i.op = "getAllVolumeActions" -> "/volumes/" \o i.a \o "/actions"
    [] i.op = "getDropletActions" -> "/droplets/" \o i.a \o "/actions"
    [] i.op = "getImageActions" -> "/images/" \o i.a \o "/actions"
    [] i.op = "getAllFloatingIPActions" -> "/floating_ips/" \o i.a \o "/actions"

\* what the caller supplied for perPage and page, undefined when nothing
SuppliedPerPage(i) == IF i.op \in PagedOps THEN i.v.e[1] ELSE Undefined

SuppliedPage(i) == IF i.op \in PagedOps THEN i.v.e[2] ELSE Undefined

\* the value supplied, or the default when none was
Echoed(supplied, default) ==
  IF supplied = Undefined THEN NumberToString(default) ELSE NumberToString(supplied.n)

(***************************************************************************)
(* C18: the request of the account-wide action list and of every           *)
(* per-resource action list (volume, droplet, image, floating IP) carries  *)
(* page and per_page in its path: page=1 and per_page=25 when the caller   *)
(* supplies neither, the caller's values when supplied.                    *)
(***************************************************************************)
C18_ActionListsArePaged ==
  \A c \in Slots :
    (Started(c) /\ calls[c].inv.op \in ActionListOps)
    => /\ Issued(c)
       /\ Join(calls[c].fetched.url) =
            calls[c].config.baseUrl \o ListEndpoint(calls[c].inv)
              \o "?page=" \o Echoed(SuppliedPage(calls[c].inv), 1)
              \o "&per_page=" \o Echoed(SuppliedPerPage(calls[c].inv), 25)

(***************************************************************************)
(* C19: an action moves from in-progress to completed or to errored only,  *)
(* and the client keeps no copy of it: each poll issues a GET of its own   *)
(* and its result reflects the response to that GET, so that once a poll   *)
(* of the action has returned completed or errored, no later poll returns  *)
(* in-progress or the other terminal status.                               *)
(***************************************************************************)
C19_PollsFollowTheAction ==
  /\ \A c \in Slots :
       (Started(c) /\ calls[c].inv.op \in PollOps)
       => /\ calls[c].nfetch = 1
          /\ calls[c].fetched.method = "GET"
  /\ \A m, n \in 1..Len(served) :
       (m < n /\ served[m] \in {"completed", "errored"})
       => served[n] \in {served[m], "none"}
  /\ \A n \in 1..Len(observed) :
       served[n] \in ActionStatuses => observed[n] = served[n]
  /\ \A m, n \in 1..Len(observed) :
       (m < n /\ observed[m] \in {"completed", "errored"})
       => observed[n] \notin (ActionStatuses \ {observed[m]})

(***************************************************************************)
(* What the properties of the outcome classes speak of.                    *)
(***************************************************************************)
\* the class of the outcome of #query: success, client error or server error
OutcomeClass(c) ==
  IF calls[c].result.kind = "resolved" THEN "success"
  ELSE IF calls[c].result.error.message = "Client Error Result" THEN "client error"
  ELSE IF calls[c].result.error.message = "Server Error Result" THEN "server error"
  ELSE "other"

\* the three bands of the statuses: up to 400, up to 500, above
Band(status) ==
  IF status <= 400 THEN "success"
  ELSE IF status <= 500 THEN "client error"
  ELSE "server error"

(***************************************************************************)
(* C20: the outcome class of a call (success, client error, server error)  *)
(* is a function of the status of its response alone, whatever the verb,   *)
(* the path, the request body or the response body: every call answered    *)
(* with a status has the class of the band of that status, so that calls   *)
(* with the same status have the same class; the class is success up to    *)
(* 400, client error from 401 to 500, server error from 501.               *)
(***************************************************************************)
C20_ClassByStatusAlone ==
  \A c \in Slots :
    Answered(c) => OutcomeClass(c) = Band(calls[c].response.status)

C20_Witness ==
  \E c \in Slots :
    /\ Answered(c)
    /\ calls[c].inv.op = "delete"
    /\ calls[c].fetched.body.present
    /\ calls[c].response.status = 400
    /\ ~calls[c].response.readable
    /\ OutcomeClass(c) = "success"

(***************************************************************************)
(* C21: round trip.  For every JSON-serializable body b, when post, put or *)
(* patch sends b and the server echoes the transmitted body back with a    *)
(* success status, the call resolves with data structurally equal to b.    *)
(***************************************************************************)
C21_EchoRoundTrip ==
  \A c \in Slots :
    (Answered(c) /\ VerbOf(c) \in {"put", "post", "patch"}
       /\ calls[c].fetched.body.present
       /\ calls[c].response.status <= 400
       /\ calls[c].response.readable
       /\ calls[c].response.toks = calls[c].fetched.body.toks)
    => /\ calls[c].result.kind = "resolved"
       /\ calls[c].result.data = PayloadOf(c)

(***************************************************************************)
(* C22: a call suspends exactly once, at the network request: between the  *)
(* arrival of its response and the decoding of the body there is no        *)
(* suspension point, so the continuation of no other call runs while a     *)
(* call holds its response and has not yet produced its result.            *)
(***************************************************************************)
C22_SingleSuspensionPoint ==
  [][\A c, d \in Slots :
       (c # d /\ calls[c].pc = "awaitText"
          /\ calls[d].pc \in {"awaitFetch", "awaitText"})
       => calls'[d] = calls[d]]_vars

(***************************************************************************)
(* C23: when two DigitalOcean instances are constructed with different     *)
(* tokens or base URLs, every request issued through the services of an    *)
(* instance carries the token and the base URL that instance was           *)
(* constructed with, in any order of construction and under any            *)
(* interleaving of their calls.                                            *)
(***************************************************************************)
C23_InstancesKeepTheirConfig ==
  (\E j, k \in 1..Len(clients) : clients[j] # clients[k])
  => \A c \in Slots :
       (Issued(c) /\ IsServiceCall(c))
       => LET own == clients[calls[c].client] IN
          /\ Join(calls[c].fetched.url) = own.url \o Join(Plan(calls[c].inv).path)
          /\ calls[c].fetched.headers["Authorization"] = <<"Bearer ", own.token>>

(***************************************************************************)
(* What the properties of the floating IP actions speak of.                *)
(***************************************************************************)
\* the body the claim names for the action
FloatingIPActionBody(i) ==
  IF i.op = "unassignFloatingIP"
  THEN Obj(<< <<"type", Str("unassign")>> >>)
  ELSE Obj(<< <<"droplet_id", Str(i.b)>>, <<"type", Str("assign")>> >>)

(***************************************************************************)
(* C24: unassignFloatingIP(ip) issues exactly one POST to                  *)
(* /floating_ips/<ip>/actions with body {type: 'unassign'} and resolves    *)
(* with the action of the response envelope, as assignFloatingIPToDroplet  *)
(* does with body {droplet_id, type: 'assign'}.                            *)
(***************************************************************************)
C24_FloatingIPActionsPost ==
  \A c \in Slots :
    (Started(c) /\ calls[c].inv.op \in {"unassignFloatingIP", "assignFloatingIPToDroplet"})
    => /\ calls[c].nfetch = 1
       /\ calls[c].fetched.method = "POST"
       /\ Join(calls[c].fetched.url) =
            calls[c].config.baseUrl \o "/floating_ips/" \o calls[c].inv.a \o "/actions"
       /\ calls[c].fetched.body =
            [present |-> TRUE, toks |-> Stringify(FloatingIPActionBody(calls[c].inv))]
       /\ (Answered(c) /\ calls[c].response.status <= 400 /\ ValidJSON(calls[c].response))
            => /\ calls[c].outcome.kind = "resolved"
               /\ calls[c].outcome.value =
                    Get(JSONparseToks(calls[c].response.toks).v, "action")

(***************************************************************************)
(* What the properties of DropletService speak of.                         *)
(***************************************************************************)
\* the operations of DropletService documented as retrieving data
DropletRetrievals ==
  {"getExistingDroplet", "getAllDroplets", "getDropletsByTag",
   "getAvailableKernelsForDroplet", "getSnapshotsForDroplet", "getBackupsForDroplet",
   "getDropletActions", "getNeighborsForDroplet", "getDropletNeighbors"}

DropletDeletions == {"deleteDroplet", "deleteDropletsByTag"}

(***************************************************************************)
(* C25: every operation of DropletService documented as retrieving data    *)
(* dispatches a GET request; a DELETE request is dispatched only by        *)
(* deleteDroplet and deleteDropletsByTag.                                  *)
(***************************************************************************)
C25_DropletRetrievalsGet ==
  \A c \in Slots :
    (Started(c) /\ calls[c].inv.op \in DropletRetrievals \cup DropletDeletions)
    => /\ Issued(c)
       /\ calls[c].inv.op \in DropletRetrievals => calls[c].fetched.method = "GET"
       /\ calls[c].fetched.method = "DELETE" => calls[c].inv.op \in DropletDeletions

(***************************************************************************)
(* C26: a request the transport issues carries a JSON body exactly when it *)
(* carries Content-Type: application/json; this holds in particular for    *)
(* delete called with a payload and for put, post and patch called with an *)
(* undefined payload.                                                      *)
(***************************************************************************)
C26_BodyIffContentType ==
  \A c \in Slots :
    Issued(c) =>
      /\ calls[c].fetched.body.present
           => /\ HasHeader(c, "Content-Type")
              /\ calls[c].fetched.headers["Content-Type"] = <<"application/json">>
      /\ HasHeader(c, "Content-Type") => calls[c].fetched.body.present

(***************************************************************************)
(* What the properties of the paged lists speak of.                        *)
(***************************************************************************)
\* the path of a paged list up to its page parameter
PagedEndpoint(i) ==
  CASE i.op = "getAllActions" -> "/actions?"
    [] i.op = "getAllVolumeActions" -> "/volumes/" \o i.a \o "/actions?"
    [] i.op = "getAllDistributionImages" -> "/images?type=distribution&"

\* a missing or zero value becomes the default, any other value is kept
Normalised(supplied, default) ==
  IF supplied = Undefined \/ supplied = Num(0)
  THEN NumberToString(default)
  ELSE NumberToString(supplied.n)

(***************************************************************************)
(* C27: for every pair of inputs (perPage, page), undefined and 0          *)
(* included, getAllActions and getAllVolumeActions put the same page and   *)
(* per_page in their query strings: a missing or zero page becomes 1 and a *)
(* missing or zero perPage becomes 25 in both, as in                       *)
(* getAllDistributionImages.                                               *)
(***************************************************************************)
C27_PagedListsAgree ==
  \A c \in Slots :
    (Started(c) /\ calls[c].inv.op \in PagedOps)
    => /\ Issued(c)
       /\ Join(calls[c].fetched.url) =
            calls[c].config.baseUrl \o PagedEndpoint(calls[c].inv)
              \o "page=" \o Normalised(SuppliedPage(calls[c].inv), 1)
              \o "&per_page=" \o Normalised(SuppliedPerPage(calls[c].inv), 25)

(***************************************************************************)
(* What the properties of the create operations speak of.                  *)
(***************************************************************************)
CreateOps == {"createBlockStorage", "createEndpoint"}

\* the fields the claim names as required, and the message of the refusal
CreateRequiredFields(op) ==
  IF op = "createBlockStorage" THEN {"size_gigabytes", "name"} ELSE {"origin"}

CreateRefusal(op) ==
  IF op = "createBlockStorage" THEN MissingVolumeFields ELSE MissingEndpointFields

\* the call was refused with this message, and nothing was sent
RefusedWith(c, message) ==
  /\ Settled(c)
  /\ calls[c].outcome.kind = "rejected"
  /\ calls[c].outcome.error = [name |-> "Error", message |-> message]
  /\ calls[c].nfetch = 0
  /\ calls[c].fetched = NoFetch
  /\ calls[c].response = NoResponse

(***************************************************************************)
(* C28, as claimed: createBlockStorage fails with 'Required fields missing *)
(* from Block Storage Object' and issues no request when size_gigabytes or *)
(* name is missing, createEndpoint fails with 'Required fields missing     *)
(* from Endpoint Object' and issues no request when origin is missing;     *)
(* when the required fields are present each issues exactly one POST.      *)
(***************************************************************************)
C28_CreatedIffPresent ==
  \A c \in Slots :
    (Started(c) /\ calls[c].inv.op \in CreateOps)
    => IF \A f \in CreateRequiredFields(calls[c].inv.op) : Has(calls[c].inv.v, f)
       THEN PostedOnce(c)
       ELSE RefusedWith(c, CreateRefusal(calls[c].inv.op))

(***************************************************************************)
(* C28, amended: each create operation fails with its message and issues   *)
(* no request when a required field is missing or has a falsy value (0,    *)
(* the empty string), and issues exactly one POST of the request when      *)
(* every required field has a truthy value.                                *)
(***************************************************************************)
C28_CreatedIffTruthy ==
  \A c \in Slots :
    (Started(c) /\ calls[c].inv.op \in CreateOps)
    => IF \A f \in CreateRequiredFields(calls[c].inv.op) : ~Falsy(Get(calls[c].inv.v, f))
       THEN PostedOnce(c)
       ELSE RefusedWith(c, CreateRefusal(calls[c].inv.op))

C28_Witness ==
  \E c \in Slots :
    /\ Started(c)
    /\ calls[c].inv.op = "createBlockStorage"
    /\ Has(calls[c].inv.v, "size_gigabytes")
    /\ ~Has(calls[c].inv.v, "name")
    /\ RefusedWith(c, MissingVolumeFields)

(***************************************************************************)
(* C29: getSnapshots requests /snapshots with no query string when the     *)
(* resource type is omitted or is 'all', and requests                      *)
(* /snapshots?resource_type=<type> for 'droplet' and 'volume'; in every    *)
(* case it issues exactly one GET.                                         *)
(***************************************************************************)
C29_SnapshotsByResourceType ==
  \A c \in Slots :
    (Started(c) /\ calls[c].inv.op = "getSnapshots")
    => /\ calls[c].nfetch = 1
       /\ calls[c].fetched.method = "GET"
       /\ calls[c].fetched.body = NoBody
       /\ Join(calls[c].fetched.url) =
            calls[c].config.baseUrl
              \o (IF calls[c].inv.v \in {Str("droplet"), Str("volume")}
                  THEN "/snapshots?resource_type=" \o calls[c].inv.v.s
                  ELSE "/snapshots")

C29_Witness ==
  \E c \in Slots :
    /\ Settled(c)
    /\ calls[c].inv.op = "getSnapshots"
    /\ calls[c].inv.v = Str("volume")
    /\ calls[c].nfetch = 1
    /\ Join(calls[c].fetched.url) = "/snapshots?resource_type=volume"
    /\ calls[c].response # NoResponse

=============================================================================
